---- MODULE Spec2Model ----
(***************************************************************************)
(* Model of src/canvas.rs: the Canvas trait (bounds-checked accessors over *)
(* unchecked primitives), the CanvasButton handle and the CanvasIterator   *)
(* traversal of the valid cells of a canvas type's bounding box.           *)
(***************************************************************************)
EXTENDS Integers, Naturals, Sequences, FiniteSets, TLC

\* ------------------------------------------------------------------ bounds
\* Largest BOUNDING_BOX_WIDTH / BOUNDING_BOX_HEIGHT of the canvas types explored.
MaxW == 2
MaxH == 2
\* Largest number of valid cells of a canvas type whose instances are explored
\* (specifications that carry the colour buffers).
MaxCells == 2
\* u32 arithmetic scaled down: the cursor fields count modulo WordModulus.
WordModulus == 8

\* ------------------------------------------------------------------ state
VARIABLES
    width,           \* C::BOUNDING_BOX_WIDTH
    height,          \* C::BOUNDING_BOX_HEIGHT
    valid,           \* the coordinates for which C::is_valid holds
    overflowChecks,  \* TRUE: debug build (overflow panics); FALSE: release (wraps)
    it,              \* the CanvasIterator cursors: it[i] is a record, see IterStart
    canvas,          \* one canvas instance: [pending |-> .., old |-> ..]
    lastCall,        \* the last canvas operation and what it returned
    committed,       \* the colours get() returned when the transport last accepted a flush
    crashed          \* "no", or the panic that ended the program

vars == <<width, height, valid, overflowChecks, it, canvas, lastCall, committed, crashed>>

IterIds == {1, 2}

Coords == (0 .. (WordModulus - 1)) \X (0 .. (WordModulus - 1))

Range(s) == {s[k] : k \in 1 .. Len(s)}

\* The bounding box of a canvas type of the given dimensions.
Box(w, h) == (0 .. (w - 1)) \X (0 .. (h - 1))

\* crate::Color is opaque to canvas.rs; two distinguishable values suffice.
Color == {"off", "red"}

\* ------------------------------------------------------------------ Canvas::is_valid
\* Faulty variant: validity depends on the instance's pending buffer.
is_valid_of_instance(x, y) ==
    /\ <<x, y>> \in valid
    /\ canvas.pending[<<x, y>>] = "off"

is_valid(x, y) == <<x, y>> \in valid

\* ------------------------------------------------------------------ CanvasButton
CanvasButton(x, y) == [x |-> x, y |-> y]

\* ------------------------------------------------------------------ CanvasIterator
\* A cursor before CanvasIterator::new has run.
IterStart ==
    [x |-> 0, y |-> 0,
     pc |-> "unborn",      \* "unborn" | "new" | "idle" | "next"
     emitted |-> <<>>,     \* the CanvasButtons returned by next(), in order
     ret |-> "-",          \* the last return of next(): "-" | "Some" | "None"
     findSteps |-> 0,      \* advance calls made by the running find_next_valid
     rowSteps |-> 0]       \* consecutive advance calls that left y unchanged

\* Faulty variant: every step moves to the start of the next row.
advance_next_row(cx, cy) ==
    [x |-> 0, y |-> (cy + 1) % WordModulus, overflow |-> cy + 1 >= WordModulus]

\* Faulty variant: x wraps one column too late.
advance_past_width(cx, cy) ==
    LET x1 == (cx + 1) % WordModulus
        o1 == cx + 1 >= WordModulus
    IN  IF x1 = width + 1
        THEN [x |-> 0, y |-> (cy + 1) % WordModulus,
              overflow |-> o1 \/ cy + 1 >= WordModulus]
        ELSE [x |-> x1, y |-> cy, overflow |-> o1]

\* Faulty variant: column-major stepping.
advance_column_major(cx, cy) ==
    LET y1 == (cy + 1) % WordModulus
        o1 == cy + 1 >= WordModulus
    IN  IF y1 = height
        THEN [x |-> (cx + 1) % WordModulus, y |-> 0,
              overflow |-> o1 \/ cx + 1 >= WordModulus]
        ELSE [x |-> cx, y |-> y1, overflow |-> o1]

\* Faulty variant: the incremented x is compared with WIDTH - 1.
advance_off_by_one(cx, cy) ==
    LET x1 == (cx + 1) % WordModulus
        o1 == cx + 1 >= WordModulus
    IN  IF x1 = width - 1
        THEN [x |-> 0, y |-> (cy + 1) % WordModulus,
              overflow |-> o1 \/ cy + 1 >= WordModulus]
        ELSE [x |-> x1, y |-> cy, overflow |-> o1]

\* advance: x += 1; if x == WIDTH { x = 0; y += 1 }.  overflow tells whether one
\* of the two u32 additions overflowed.
advance(cx, cy) ==
    LET x1 == (cx + 1) % WordModulus
        o1 == cx + 1 >= WordModulus
    IN  IF x1 = width
        THEN [x |-> 0, y |-> (cy + 1) % WordModulus,
              overflow |-> o1 \/ cy + 1 >= WordModulus]
        ELSE [x |-> x1, y |-> cy, overflow |-> o1]

\* Faulty variant: the validity test of the loop is dropped.
find_test_no_validity(cx, cy) ==
    IF cy >= height THEN "false" ELSE "true"

\* One pass of the loop of find_next_valid: "false" and "true" are its returns,
\* "advance" is the fall-through to self.advance().
find_test(cx, cy) ==
    IF cy >= height THEN "false"
    ELSE IF is_valid(cx, cy) THEN "true"
    ELSE "advance"

Running(i) == it[i].pc \in {"new", "next"}

\* No call is in progress on any cursor (the program is single-threaded).
Quiet == \A j \in IterIds : ~Running(j)

\* The cursor update of one self.advance(), with the step counters.
Advanced(c, a) ==
    [c EXCEPT !.x = a.x, !.y = a.y,
              !.findSteps = IF c.pc = "idle" THEN @ ELSE @ + 1,
              !.rowSteps = IF a.y = c.y THEN @ + 1 ELSE 0]

\* self.advance() on cursor i, whose record is c when the call is made; the
\* caller goes on at next_pc.  In a build with overflow checks an overflowing
\* addition panics and the cursor stays as it was; otherwise the value wraps.
DoAdvance(i, c, next_pc) ==
    LET a == advance(c.x, c.y)
    IN  IF a.overflow /\ overflowChecks
        THEN /\ crashed' = "overflow"
             /\ UNCHANGED it
        ELSE /\ it' = [it EXCEPT ![i] = [Advanced(c, a) EXCEPT !.pc = next_pc]]
             /\ UNCHANGED crashed

\* CanvasIterator::new, up to the call of find_next_valid.
new(i) ==
    /\ crashed = "no"
    /\ Quiet
    /\ it[i].pc = "unborn"
    /\ it' = [it EXCEPT ![i] = [IterStart EXCEPT !.pc = "new"]]
    /\ UNCHANGED <<width, height, valid, overflowChecks, canvas, lastCall, committed, crashed>>

\* find_next_valid: a pass of the loop that reaches self.advance().
find_next_valid_advance(i) ==
    /\ crashed = "no"
    /\ Running(i)
    /\ find_test(it[i].x, it[i].y) = "advance"
    /\ DoAdvance(i, it[i], it[i].pc)
    /\ UNCHANGED <<width, height, valid, overflowChecks, canvas, lastCall, committed>>

\* new: find_next_valid returned (its result is ignored) and new returns.
new_return(i) ==
    /\ crashed = "no"
    /\ it[i].pc = "new"
    /\ find_test(it[i].x, it[i].y) \in {"true", "false"}
    /\ it' = [it EXCEPT ![i].pc = "idle"]
    /\ UNCHANGED <<width, height, valid, overflowChecks, canvas, lastCall, committed, crashed>>

\* Iterator::next, up to the call of find_next_valid.
next(i) ==
    /\ crashed = "no"
    /\ Quiet
    /\ it[i].pc = "idle"
    /\ it' = [it EXCEPT ![i].pc = "next", ![i].findSteps = 0]
    /\ UNCHANGED <<width, height, valid, overflowChecks, canvas, lastCall, committed, crashed>>

\* Faulty variant: the exhausted cursor is rewound as next returns None.
next_none_rewind(i) ==
    /\ crashed = "no"
    /\ it[i].pc = "next"
    /\ find_test(it[i].x, it[i].y) = "false"
    /\ it' = [it EXCEPT ![i].pc = "idle", ![i].ret = "None", ![i].x = 0, ![i].y = 0]
    /\ UNCHANGED <<width, height, valid, overflowChecks, canvas, lastCall, committed, crashed>>

\* next: find_next_valid returned false, next returns None.
next_none(i) ==
    /\ crashed = "no"
    /\ it[i].pc = "next"
    /\ find_test(it[i].x, it[i].y) = "false"
    /\ it' = [it EXCEPT ![i].pc = "idle", ![i].ret = "None"]
    /\ UNCHANGED <<width, height, valid, overflowChecks, canvas, lastCall, committed, crashed>>

\* next: find_next_valid returned true; the button is built at the cursor, the
\* cursor advances once and next returns Some(button).
next_some(i) ==
    /\ crashed = "no"
    /\ it[i].pc = "next"
    /\ find_test(it[i].x, it[i].y) = "true"
    /\ DoAdvance(i, [it[i] EXCEPT !.emitted = Append(@, CanvasButton(it[i].x, it[i].y)),
                                  !.ret = "Some", !.pc = "idle"],
                 "idle")
    /\ UNCHANGED <<width, height, valid, overflowChecks, canvas, lastCall, committed>>

\* Canvas::iter: return CanvasIterator::new().
iter(i) == new(i)

IterStep(i) ==
    \/ iter(i)
    \/ find_next_valid_advance(i)
    \/ new_return(i)
    \/ next(i)
    \/ next_none(i)
    \/ next_some(i)

\* ------------------------------------------------------------------ canvas instance
\* A canvas whose cells all hold the same colour in both buffers.
Blank(cells) == [pending |-> [p \in cells |-> "off"], old |-> [p \in cells |-> "off"]]

NoCall == [op |-> "none", ret |-> "-", unchecked |-> FALSE, transport |-> "-"]

\* What an unchecked primitive yields at a coordinate that holds no cell.
Unspecified == "unspecified"

\* The primitives every canvas type implements.  get_unchecked reads the
\* pending colour, set_unchecked writes it, get_old_unchecked reads the colour
\* of the last flush.
get_unchecked(cv, x, y) ==
    IF <<x, y>> \in DOMAIN cv.pending THEN cv.pending[<<x, y>>] ELSE Unspecified

set_unchecked(cv, x, y, color) ==
    IF <<x, y>> \in DOMAIN cv.pending
    THEN [cv EXCEPT !.pending[<<x, y>>] = color]
    ELSE cv

get_old_unchecked(cv, x, y) ==
    IF <<x, y>> \in DOMAIN cv.old THEN cv.old[<<x, y>>] ELSE Unspecified

\* Faulty variant: a failed flush is reported as a success, its colours taken as flushed.
flush_swallowed(cv, ok) == [result |-> "Ok", canvas |-> [cv EXCEPT !.old = cv.pending]]

\* flush: the transport accepts the pending colours (ok) or fails; only an
\* accepted flush makes them the flushed colours.
flush(cv, ok) ==
    IF ok
    THEN [result |-> "Ok", canvas |-> [cv EXCEPT !.old = cv.pending]]
    ELSE [result |-> "Err", canvas |-> cv]

\* The outcome of a checked operation: whether it panicked, the canvas it
\* leaves, the value it returns and whether it called an unchecked primitive.
Panicked(cv) == [panic |-> TRUE, canvas |-> cv, value |-> "panic", unchecked |-> FALSE]
Returned(cv, v) == [panic |-> FALSE, canvas |-> cv, value |-> v, unchecked |-> TRUE]

\* Faulty variant: set without the validity check.
set_no_check(cv, x, y, color) == Returned(set_unchecked(cv, x, y, color), "unit")

\* Faulty variant: set that checks and then drops the write.
set_dropped(cv, x, y, color) ==
    IF ~is_valid(x, y) THEN Panicked(cv) ELSE Returned(cv, "unit")

\* Canvas::set
set(cv, x, y, color) ==
    IF ~is_valid(x, y)
    THEN Panicked(cv)
    ELSE Returned(set_unchecked(cv, x, y, color), "unit")

\* Canvas::get
get(cv, x, y) ==
    IF ~is_valid(x, y)
    THEN Panicked(cv)
    ELSE Returned(cv, get_unchecked(cv, x, y))

\* Canvas::get_old
get_old(cv, x, y) ==
    IF ~is_valid(x, y)
    THEN Panicked(cv)
    ELSE Returned(cv, get_old_unchecked(cv, x, y))

\* Faulty variant: the handle reads the pending colour as the old one.
button_get_old_pending(b, cv) == Returned(cv, get_unchecked(cv, b.x, b.y))

\* CanvasButton::get, get_old, set: the unchecked primitive at the button.
button_get(b, cv) == Returned(cv, get_unchecked(cv, b.x, b.y))

button_get_old(b, cv) == Returned(cv, get_old_unchecked(cv, b.x, b.y))

button_set(b, cv, color) == Returned(set_unchecked(cv, b.x, b.y, color), "unit")

\* The coordinates callers pass: the bounding box and one step beyond it.
Probe == Box(width + 1, height + 1)

\* The program makes the call whose outcome is r.  transport is "-" but for a
\* flush, where it tells whether the transport accepted the colours.
Call(op, r, transport) ==
    /\ crashed = "no"
    /\ Quiet
    /\ canvas' = r.canvas
    /\ lastCall' = [op |-> op, ret |-> r.value, unchecked |-> r.unchecked,
                    transport |-> transport]
    /\ committed' = IF transport = "up"
                    THEN [p \in valid |-> get_unchecked(canvas, p[1], p[2])]
                    ELSE committed
    /\ crashed' = IF r.panic THEN "out_of_bounds" ELSE "no"
    /\ UNCHANGED <<width, height, valid, overflowChecks, it>>

call_set == \E p \in Probe, c \in Color : Call("set", set(canvas, p[1], p[2], c), "-")

call_get == \E p \in Probe : Call("get", get(canvas, p[1], p[2]), "-")

call_get_old == \E p \in Probe : Call("get_old", get_old(canvas, p[1], p[2]), "-")

call_flush ==
    \E ok \in BOOLEAN :
        LET f == flush(canvas, ok)
        IN  Call("flush",
                 [panic |-> FALSE, canvas |-> f.canvas, value |-> f.result,
                  unchecked |-> FALSE],
                 IF ok THEN "up" ELSE "down")

\* The buttons the program holds: those its traversals have returned.
Held == UNION {Range(it[i].emitted) : i \in IterIds}

call_button_set ==
    \E b \in Held, c \in Color : Call("button.set", button_set(b, canvas, c), "-")

call_button_get == \E b \in Held : Call("button.get", button_get(b, canvas), "-")

call_button_get_old ==
    \E b \in Held : Call("button.get_old", button_get_old(b, canvas), "-")

\* The checked operations at the coordinates of a held button.
call_set_at_button ==
    \E b \in Held, c \in Color : Call("set", set(canvas, b.x, b.y, c), "-")

call_get_at_button == \E b \in Held : Call("get", get(canvas, b.x, b.y), "-")

call_get_old_at_button == \E b \in Held : Call("get_old", get_old(canvas, b.x, b.y), "-")

\* ------------------------------------------------------------------ traversal alone
\* Every canvas type of the explored dimensions, in both builds; one cursor.
InitIter ==
    /\ width \in 0 .. MaxW
    /\ height \in 0 .. MaxH
    /\ valid \in SUBSET Box(width, height)
    /\ overflowChecks \in BOOLEAN
    /\ it = [i \in IterIds |-> IterStart]
    /\ canvas = Blank(valid)
    /\ lastCall = NoCall
    /\ committed = Blank(valid).old
    /\ crashed = "no"

NextIter == IterStep(1)

SpecIter == InitIter /\ [][NextIter]_vars

\* ------------------------------------------------------------------ traversal, any is_valid
\* The coordinates one step beyond the bounding box.
Ring(w, h) == Box(w + 1, h + 1) \ Box(w, h)

\* Canvas types whose is_valid may also hold beyond the bounding box (at none,
\* one or all of the coordinates one step beyond it), and the two types whose
\* width or height is the largest value the cursor fields can hold.
InitLoose ==
    /\ \E d \in ((0 .. MaxW) \X (0 .. MaxH))
                  \cup {<<WordModulus - 1, 1>>, <<1, WordModulus - 1>>} :
         width = d[1] /\ height = d[2]
    /\ \E v \in SUBSET Box(width, height) :
         \E o \in {{}, Ring(width, height)} \cup {{q} : q \in Ring(width, height)} :
             valid = v \cup o
    /\ overflowChecks \in BOOLEAN
    /\ it = [i \in IterIds |-> IterStart]
    /\ canvas = Blank(valid)
    /\ lastCall = NoCall
    /\ committed = Blank(valid).old
    /\ crashed = "no"

SpecLoose == InitLoose /\ [][NextIter]_vars

\* ------------------------------------------------------------------ one canvas instance
\* Canvas types with at most MaxCells valid cells and one instance of the
\* type, its buffers blank.
InitCanvas ==
    /\ width \in 0 .. MaxW
    /\ height \in 0 .. MaxH
    /\ valid \in {v \in SUBSET Box(width, height) : Cardinality(v) <= MaxCells}
    /\ overflowChecks \in BOOLEAN
    /\ it = [i \in IterIds |-> IterStart]
    /\ canvas = Blank(valid)
    /\ lastCall = NoCall
    /\ committed = Blank(valid).old
    /\ crashed = "no"

\* The checked operations and flush on the instance.
NextCanvas ==
    \/ call_set
    \/ call_get
    \/ call_get_old
    \/ call_flush

SpecCanvas == InitCanvas /\ [][NextCanvas]_vars

\* ------------------------------------------------------------------ buttons on an instance
\* One traversal; the buttons it returns are used on the instance.
NextHandle ==
    \/ IterStep(1)
    \/ call_button_set
    \/ call_button_get
    \/ call_button_get_old
    \/ call_set_at_button
    \/ call_get_at_button
    \/ call_get_old_at_button
    \/ call_flush

SpecHandle == InitCanvas /\ [][NextHandle]_vars

\* ------------------------------------------------------------------ two traversals
\* How far a traversal has come: 0 until new has returned, then one more than the number
\* of next() calls that returned a button, and one more again after None.
Pos(i) ==
    IF it[i].pc \in {"unborn", "new"} THEN 0
    ELSE Len(it[i].emitted) + (IF it[i].ret = "None" THEN 2 ELSE 1)

\* Two traversals of the same canvas type stepped side by side (the second
\* follows the first), with writes and flushes of the instance in between.
NextPair ==
    \/ Pos(1) <= Pos(2) /\ IterStep(1)
    \/ Pos(2) < Pos(1) /\ IterStep(2)
    \/ call_set
    \/ call_flush

SpecPair == InitCanvas /\ [][NextPair]_vars

\* ------------------------------------------------------------------ claims: traversal
\* (y, x) lexicographic order of two buttons.
RowMajorBefore(a, b) == a.y < b.y \/ (a.y = b.y /\ a.x < b.x)

\* C1: the buttons a traversal has returned hold no duplicate and no invalid
\* coordinate, and once next() has returned None every valid coordinate of the
\* bounding box has been returned: as many buttons as is_valid has coordinates.
C1_EachValidOnce ==
    LET e == it[1].emitted
    IN  /\ \A a, b \in 1 .. Len(e) : a # b => e[a] # e[b]
        /\ \A a \in 1 .. Len(e) : is_valid(e[a].x, e[a].y)
        /\ it[1].ret = "None" =>
             /\ \A p \in Box(width, height) :
                  is_valid(p[1], p[2]) => CanvasButton(p[1], p[2]) \in Range(e)
             /\ Len(e) = Cardinality({p \in Coords : is_valid(p[1], p[2])})

\* A finished traversal of a sparse canvas type with several valid cells.
C1_Witness ==
    /\ it[1].ret = "None"
    /\ Len(it[1].emitted) >= 2
    /\ Cardinality(valid) < width * height

\* C2: the buttons are returned in strictly increasing (y, x) order, and the
\* finished traversal of a fully valid W x H canvas type is exactly
\* (0,0), (1,0), .., (W-1,0), (0,1), .., (W-1,H-1).
C2_RowMajorOrder ==
    LET e == it[1].emitted
    IN  /\ \A a, b \in 1 .. Len(e) : a < b => RowMajorBefore(e[a], e[b])
        /\ (valid = Box(width, height) /\ it[1].ret = "None") =>
             /\ Len(e) = width * height
             /\ \A k \in 1 .. Len(e) :
                  e[k] = CanvasButton((k - 1) % width, (k - 1) \div width)

\* A finished traversal of a fully valid canvas type with rows and columns.
C2_Witness ==
    /\ it[1].ret = "None"
    /\ valid = Box(width, height)
    /\ width >= 2
    /\ height >= 2

\* C3 (as claimed): over an empty bounding box (width = 0 or height = 0) the
\* construction of the traversal completes, without a panic, and next()
\* returns no button.
C3_EmptyBoxYieldsNothing ==
    (width = 0 \/ height = 0) =>
        /\ crashed = "no"
        /\ it[1].ret # "Some"
        /\ it[1].emitted = <<>>

\* C4 (as claimed): a call of find_next_valid makes at most width * height
\* advance steps, and y increases after at most width consecutive advance calls.
C4_FindBounded ==
    /\ it[1].findSteps <= width * height
    /\ it[1].rowSteps < width \/ it[1].rowSteps = 0

\* The cursor is at a valid coordinate or exhausted.
ValidOrExhausted(c) == is_valid(c.x, c.y) \/ c.y >= height

\* C10 (as claimed): when new() has completed, and right after each next() that
\* returned a button, the cursor is at a valid coordinate or exhausted.
C10_CursorValidOrExhausted ==
    (it[1].pc = "idle" /\ it[1].ret \in {"-", "Some"}) => ValidOrExhausted(it[1])

\* C10 (amended): when new() has completed the cursor is at a valid coordinate
\* or exhausted; right after a next() that returned a button it is at a valid
\* coordinate, exhausted, or at a coordinate of the bounding box that is not
\* valid (the following next() skips it).
C10_CursorAtObservation ==
    /\ (it[1].pc = "idle" /\ it[1].ret = "-") => ValidOrExhausted(it[1])
    /\ (it[1].pc = "idle" /\ it[1].ret = "Some") =>
          \/ ValidOrExhausted(it[1])
          \/ <<it[1].x, it[1].y>> \in Box(width, height)

\* next() has returned a button and left the cursor on an invalid coordinate
\* inside the bounding box.
C10_Witness ==
    /\ it[1].pc = "idle"
    /\ it[1].ret = "Some"
    /\ ~ValidOrExhausted(it[1])

\* ------------------------------------------------------------------ claims: canvas
\* C5: set, get and get_old panic exactly at the coordinates is_valid rejects,
\* and then call no unchecked primitive and leave both buffers as they were;
\* at a valid coordinate they do and return what set_unchecked, get_unchecked
\* and get_old_unchecked do and return.
C5_CheckedOperations ==
    /\ \A p \in Probe, c \in Color :
         LET s == set(canvas, p[1], p[2], c)
             g == get(canvas, p[1], p[2])
             o == get_old(canvas, p[1], p[2])
         IN  IF is_valid(p[1], p[2])
             THEN /\ ~s.panic /\ ~g.panic /\ ~o.panic
                  /\ s.canvas = set_unchecked(canvas, p[1], p[2], c)
                  /\ g.value = get_unchecked(canvas, p[1], p[2])
                  /\ o.value = get_old_unchecked(canvas, p[1], p[2])
                  /\ g.canvas = canvas /\ o.canvas = canvas
             ELSE /\ s.panic /\ g.panic /\ o.panic
                  /\ ~s.unchecked /\ ~g.unchecked /\ ~o.unchecked
                  /\ s.canvas = canvas /\ g.canvas = canvas /\ o.canvas = canvas
    /\ (crashed = "out_of_bounds") = (lastCall.ret = "panic")
    /\ lastCall.ret = "panic" => ~lastCall.unchecked

\* A set at an invalid coordinate has panicked on a canvas that holds writes.
C5_Witness ==
    /\ crashed = "out_of_bounds"
    /\ lastCall.op = "set"
    /\ canvas.pending # canvas.old
    /\ canvas.old # Blank(valid).old

\* C6: at a valid coordinate get after set(x, y, c) returns c, set changes no
\* get_old, and get_old returns the colour get returned when the transport last
\* accepted a flush.
C6_ReadYourWrites ==
    /\ \A p \in valid, c \in Color :
         LET s == set(canvas, p[1], p[2], c).canvas
         IN  /\ get(s, p[1], p[2]).value = c
             /\ \A q \in valid :
                  get_old(s, q[1], q[2]).value = get_old(canvas, q[1], q[2]).value
    /\ \A p \in valid : get_old(canvas, p[1], p[2]).value = committed[p]
    /\ lastCall.transport = "up" =>
         \A p \in valid : get_old(canvas, p[1], p[2]).value = get(canvas, p[1], p[2]).value

\* Writes made after an accepted flush: get and get_old differ somewhere.
C6_Witness ==
    /\ lastCall.op = "set"
    /\ lastCall.ret = "unit"
    /\ committed # Blank(valid).old
    /\ \E p \in valid : get(canvas, p[1], p[2]).value # get_old(canvas, p[1], p[2]).value

\* C8: a flush the transport does not accept returns the failure result, never
\* success, and leaves get_old at the colours of the last accepted flush.
C8_FlushFailureSurfaced ==
    /\ flush(canvas, FALSE).result = "Err"
    /\ \A p \in valid :
         get_old(flush(canvas, FALSE).canvas, p[1], p[2]).value
           = get_old(canvas, p[1], p[2]).value
    /\ lastCall.transport = "down" =>
         /\ lastCall.ret = "Err"
         /\ \A p \in valid : get_old(canvas, p[1], p[2]).value = committed[p]

\* A flush has failed with a write pending.
C8_Witness ==
    /\ lastCall.transport = "down"
    /\ \E p \in valid : get(canvas, p[1], p[2]).value # get_old(canvas, p[1], p[2]).value

\* ------------------------------------------------------------------ claims: buttons
\* C7: at the coordinates of a button a traversal returned, set, get and get_old
\* never panic, and the button's set, get and get_old return the same value and
\* leave the same canvas as they do.
C7_ButtonsNeedNoCheck ==
    /\ crashed # "out_of_bounds"
    /\ \A b \in Held, c \in Color :
         LET s == set(canvas, b.x, b.y, c)
             g == get(canvas, b.x, b.y)
             o == get_old(canvas, b.x, b.y)
         IN  /\ ~s.panic /\ ~g.panic /\ ~o.panic
             /\ button_set(b, canvas, c) = s
             /\ button_get(b, canvas) = g
             /\ button_get_old(b, canvas) = o

\* A button has written to a canvas whose buffers differ, two buttons are held.
C7_Witness ==
    /\ lastCall.op = "button.set"
    /\ Cardinality(Held) >= 2
    /\ canvas.pending # canvas.old

\* ------------------------------------------------------------------ claims: determinism
\* One sequence is a prefix of the other.
PrefixOrEqual(a, b) ==
    \A k \in 1 .. Len(a) : k <= Len(b) => a[k] = b[k]

\* C9: two traversals of one canvas type return the same buttons in the same
\* order and None at the same call, whatever is written to or flushed from an
\* instance before and between their calls.
C9_TraversalDeterministic ==
    /\ PrefixOrEqual(it[1].emitted, it[2].emitted)
    /\ (Quiet /\ Pos(1) = Pos(2)) =>
         /\ it[1].emitted = it[2].emitted
         /\ it[1].ret = it[2].ret
         /\ it[1].x = it[2].x
         /\ it[1].y = it[2].y

\* Both traversals have finished, with buttons returned, on a written canvas.
C9_Witness ==
    /\ it[1].ret = "None"
    /\ it[2].ret = "None"
    /\ Len(it[2].emitted) >= 2
    /\ canvas.pending # Blank(valid).pending
    /\ canvas.old # Blank(valid).old

\* ------------------------------------------------------------------ claims: cursor
\* (y, x) lexicographic order of two coordinates.
Before(p, q) == p[2] < q[2] \/ (p[2] = q[2] /\ p[1] < q[1])

AtOrBefore(p, q) == p = q \/ Before(p, q)

\* The coordinate one step after (x, y) in the row-major walk of the box.
StepAfter(x, y) == IF x + 1 = width THEN <<0, y + 1>> ELSE <<x + 1, y>>

\* C11: when new() has completed the cursor is at the first valid coordinate in
\* row-major order, or exhausted when there is none; right after next() has
\* returned the button of (x, y) the cursor is one step after (x, y), no valid
\* coordinate lies between (x, y) and the cursor, and the cursor is at or
\* before the next valid coordinate, or the exhausted position (0, height).
C11_CursorBeforeNextValid ==
    LET c == <<it[1].x, it[1].y>>
        e == it[1].emitted
    IN  /\ (it[1].pc = "idle" /\ it[1].ret = "-") =>
             IF valid = {}
             THEN it[1].y >= height
             ELSE c \in valid /\ \A q \in valid : AtOrBefore(c, q)
        /\ (it[1].pc = "idle" /\ it[1].ret = "Some") =>
             LET b == <<e[Len(e)].x, e[Len(e)].y>>
                 rest == {q \in valid : Before(b, q)}
             IN  /\ c = StepAfter(b[1], b[2])
                 /\ \A q \in valid : ~(Before(b, q) /\ Before(q, c))
                 /\ \A q \in rest : AtOrBefore(c, q)
                 /\ rest = {} => AtOrBefore(c, <<0, height>>)

\* next() has left the cursor on an invalid coordinate with a valid one ahead.
C11_Witness ==
    /\ it[1].pc = "idle"
    /\ it[1].ret = "Some"
    /\ it[1].y < height
    /\ ~is_valid(it[1].x, it[1].y)
    /\ \E q \in valid : Before(<<it[1].x, it[1].y>>, q)

\* C12: once next() has returned None, every later next() returns None and
\* leaves the cursor and the returned buttons as they are; and no step of the
\* traversal moves the cursor to an earlier row-major position.
C12_ExhaustionPermanent ==
    [][ /\ it[1].ret = "None" =>
             /\ it'[1].ret = "None"
             /\ it'[1].x = it[1].x
             /\ it'[1].y = it[1].y
             /\ it'[1].emitted = it[1].emitted
        /\ AtOrBefore(<<it[1].x, it[1].y>>, <<it'[1].x, it'[1].y>>) ]_vars

\* A next() called after None was returned, on a traversal that returned buttons.
C12_Witness ==
    /\ it[1].ret = "None"
    /\ it[1].pc = "next"
    /\ Len(it[1].emitted) >= 2

\* C13: for a canvas type of width >= 1 the cursor always has x < width and
\* y <= height, with x = 0 when y = height; so no addition of advance overflows,
\* is_valid is asked only about coordinates of the bounding box, and every
\* returned button lies in the bounding box, whatever is_valid says outside it.
C13_CursorBounds ==
    width >= 1 =>
        /\ it[1].x < width
        /\ it[1].y <= height
        /\ it[1].y = height => it[1].x = 0
        /\ crashed # "overflow"
        /\ it[1].y < height => ~advance(it[1].x, it[1].y).overflow
        /\ (Running(1) /\ it[1].y < height) => <<it[1].x, it[1].y>> \in Box(width, height)
        /\ \A k \in 1 .. Len(it[1].emitted) :
             it[1].emitted[k].x < width /\ it[1].emitted[k].y < height

\* A finished traversal of a type whose is_valid holds somewhere outside the box.
C13_Witness ==
    /\ width >= 1
    /\ \E q \in valid : q \notin Box(width, height)
    /\ it[1].ret = "None"
    /\ Len(it[1].emitted) >= 2
    /\ it[1].y = height

====
